---- MODULE Spec2Model ----
(***************************************************************************)
(* AWSS3UploadManager (packages/storage/src/providers): the registry of    *)
(* resumable multipart uploads kept under one Storage key, the in-memory   *)
(* table of upload tasks, and the asynchronous addTask request with its    *)
(* suspension points (the list-parts call, the create-multipart-upload     *)
(* call), the abort calls of _purgeExpiredKeys and the emitter events.     *)
(***************************************************************************)
EXTENDS Integers, Sequences, FiniteSets, TLC

(* ------------------------------ bounds --------------------------------- *)

\* number of addTask requests issued on the manager instance
MaxReqs == 2
\* number of requests suspended at a remote call at the same time
MaxInFlight == 2
\* number of times the clock is observed to advance
MaxTicks == 1
\* largest number of parts a list-parts response reports
MaxParts == 1
\* number of records an earlier run of the manager left in the registry
MaxInitRecords == 1
\* number of abort calls the remote store answers (the others stay pending)
MaxAbortReplies == 1
\* number of requests whose upload completes or is aborted
MaxEmits == 1

(* ---------------------------- constants -------------------------------- *)

oneHourInMs == 1000 * 60 * 60

\* the clock value when the manager is constructed
Now0 == 2 * oneHourInMs

Reqs == 1 .. MaxReqs

None == [none |-> TRUE]

(* ------------------------ inputs of addTask ---------------------------- *)

File1 == [isFile |-> TRUE, isBlob |-> TRUE, name |-> "a.png",
          lastModified |-> 100, size |-> 10, type |-> "image/png"]

Blob1 == [isFile |-> FALSE, isBlob |-> TRUE, size |-> 10, type |-> "image/png"]

InputSeq ==
    <<[accessLevel |-> "public", file |-> File1, bucket |-> "b", key |-> "k"],
      [accessLevel |-> "public", file |-> Blob1, bucket |-> "b", key |-> "k"]>>

AddTaskInput == {InputSeq[i] : i \in 1 .. Len(InputSeq)}

TaskEvents == {"abort", "uploadComplete"}

(* --------------------------- pure helpers ------------------------------ *)

_isFile(x) == x.isFile

_isBlob(x) == x.isBlob

RECURSIVE join(_, _)
join(parts, sep) ==
    IF Len(parts) = 0 THEN ""
    ELSE IF Len(parts) = 1 THEN Head(parts)
    ELSE Head(parts) \o sep \o join(Tail(parts), sep)

_getFileKey(blob, bucket, key) ==
    IF _isFile(blob)
    THEN join(<<blob.name, ToString(blob.lastModified), ToString(blob.size),
                blob.type, bucket, key>>, "-")
    ELSE IF _isBlob(blob)
    THEN join(<<ToString(blob.size), blob.type, bucket, key>>, "-")
    ELSE ""

fileKeyOf(inp) == _getFileKey(inp.file, inp.bucket, inp.key)

(* ---------------- the item under UPLOADS_STORAGE_KEY ------------------- *)

\* getItem returns null (no item), a string that is not JSON, or the
\* serialization of a mapping fingerprint -> FileMetadata
NullItem == [kind |-> "null"]
MalformedItem == [kind |-> "malformed"]

JSONstringify(uploads) == [kind |-> "json", value |-> uploads]

JSONparseThrows(item) == item.kind = "malformed"

\* JSON.parse(getItem(UPLOADS_STORAGE_KEY)) || {}
parseUploads(item) == IF item.kind = "json" THEN item.value ELSE <<>>

deleteKey(uploads, k) == [x \in DOMAIN uploads \ {k} |-> uploads[x]]

setKey(uploads, k, v) ==
    [x \in DOMAIN uploads \cup {k} |-> IF x = k THEN v ELSE uploads[x]]

\* _removeKey without the setItem of line 158
_removeKeyNoWrite(item, key) == item

_removeKey(item, key) == JSONstringify(deleteKey(parseUploads(item), key))

\* _addKey storing under the object key instead of the fingerprint
_addKeyByObjectKey(item, key, fileMetadata) ==
    JSONstringify(setKey(parseUploads(item), fileMetadata.key, fileMetadata))

\* _addKey keeping a record that is already there
_addKeyIfAbsent(item, key, fileMetadata) ==
    IF key \in DOMAIN parseUploads(item)
    THEN JSONstringify(parseUploads(item))
    ELSE JSONstringify(setKey(parseUploads(item), key, fileMetadata))

\* _addKey writing a mapping that holds the new record alone
_addKeyAlone(item, key, fileMetadata) ==
    JSONstringify(setKey(<<>>, key, fileMetadata))

_addKey(item, key, fileMetadata) ==
    JSONstringify(setKey(parseUploads(item), key, fileMetadata))

(* ---------------------- _purgeExpiredKeys ------------------------------ *)

\* line 136 with >= for >
purgeHasExpiredInclusive(upload, t, ttl) ==
    /\ "timeStarted" \in DOMAIN upload
    /\ t - upload.timeStarted >= ttl

purgeHasExpired(upload, t, ttl) ==
    /\ "timeStarted" \in DOMAIN upload
    /\ t - upload.timeStarted > ttl

\* the AbortMultipartUploadCommands one pass sends
purgeAbortCommands(pass, uploads, t, ttl) ==
    { [pass |-> pass, k |-> k, Bucket |-> uploads[k].bucket,
       Key |-> uploads[k].key, UploadId |-> uploads[k].uploadId] :
        k \in {x \in DOMAIN uploads : purgeHasExpired(uploads[x], t, ttl)} }

\* the item the pass writes back, synchronously, after sending the aborts
purgeWriteBack(uploads) == JSONstringify(uploads)

(* -------------------- _getCachedUploadParts ---------------------------- *)

\* line 83 with >= for >
cachedHasExpiredInclusive(cachedUploadFileData, t) ==
    /\ "lastTouched" \in DOMAIN cachedUploadFileData
    /\ t - cachedUploadFileData.lastTouched >= oneHourInMs

\* line 83 with the operands of the subtraction exchanged
cachedHasExpiredReversed(cachedUploadFileData, t) ==
    /\ "lastTouched" \in DOMAIN cachedUploadFileData
    /\ cachedUploadFileData.lastTouched - t > oneHourInMs

cachedHasExpired(cachedUploadFileData, t) ==
    /\ "lastTouched" \in DOMAIN cachedUploadFileData
    /\ t - cachedUploadFileData.lastTouched > oneHourInMs

\* line 85 left out
touchNothing(cachedUploadFileData, t) == cachedUploadFileData

touch(cachedUploadFileData, t) ==
    [f \in DOMAIN cachedUploadFileData \cup {"lastTouched"} |->
        IF f = "lastTouched" THEN t ELSE cachedUploadFileData[f]]

\* the synchronous part of the lookup: what it returns without a remote
\* call ("null", "undefined") or the ListPartsCommand it sends, and the item
\* it leaves in storage
_getCachedUploadParts(item, fileKey, t) ==
    IF item.kind = "null"
    THEN [ret |-> "null", item |-> item]
    ELSE LET uploads == parseUploads(item) IN
         IF fileKey \notin DOMAIN uploads
         THEN [ret |-> "null", item |-> item]
         ELSE IF cachedHasExpired(uploads[fileKey], t)
         THEN [ret |-> "undefined", item |-> item]
         ELSE [ret |-> "listParts",
               item |-> JSONstringify(
                   setKey(uploads, fileKey, touch(uploads[fileKey], t))),
               UploadId |-> uploads[fileKey].uploadId]

_isListPartsOutput(x) == "UploadId" \in DOMAIN x /\ "Parts" \in DOMAIN x

(* ------------------------------ state ---------------------------------- *)

VARIABLES
    storage,        \* the item under UPLOADS_STORAGE_KEY
    uploadTasks,    \* _uploadTasks: UploadId -> task
    now,            \* Date.now()
    ticks,          \* how often the clock has advanced
    pc,             \* where each addTask request is
    input,          \* the input of each request
    lookup,         \* the pending result of _getCachedUploadParts
    cachedUpload,   \* the local cachedUpload of each request
    subscribed,     \* whether the request's two emitter.on calls have run
    result,         \* the task the request returned
    err,            \* the error the request rejected with
    gcUploads,      \* the local uploads object of each request's purge pass
    nextUploadId,   \* the next UploadId the remote store hands out
    aborts,         \* AbortMultipartUploadCommands sent
    acked,          \* ... that resolved
    rejected,       \* ... that rejected
    calls,          \* per request: the create and list-parts calls it sent
                    \* and which of them the remote store rejected
    atCall,         \* per request: the item and the clock when it was issued
    emitted,        \* the requests on whose emitter an event was emitted
    registered,     \* the assignments to _uploadTasks[...], oldest first
    got,            \* what getTask returned, when the last step was a call of it
    fileKeyCall,    \* a pair of _getFileKey calls: the arguments and the results
    prev            \* the registry, the task table and the progress of the
                    \* requests as they were before the last step

vars == <<storage, uploadTasks, now, ticks, pc, input, lookup, cachedUpload,
          subscribed, result, err, gcUploads, nextUploadId, aborts, acked,
          rejected, calls, atCall, emitted, registered, got, fileKeyCall,
          prev>>

pendingAborts == aborts \ (acked \cup rejected)

snapshot ==
    [storage |-> storage, uploadTasks |-> uploadTasks, pc |-> pc,
     calls |-> calls, aborts |-> aborts, acked |-> acked,
     rejected |-> rejected, emitted |-> emitted]

remember == prev' = snapshot

(* --------------------------- initial state ----------------------------- *)

\* timestamps of records an earlier run of the manager left behind
InitTimes == {Now0 - oneHourInMs - 1, Now0 - oneHourInMs}

\* a record as _initMultiupload writes it and _getCachedUploadParts touches it
FileMetadata(inp, uploadId, timeStarted, lastTouched) ==
    LET base == [uploadId |-> uploadId, timeStarted |-> timeStarted,
                 lastTouched |-> lastTouched, bucket |-> inp.bucket,
                 key |-> inp.key, accessLevel |-> inp.accessLevel]
    IN IF _isFile(inp.file)
       THEN [f \in DOMAIN base \cup {"fileName"} |->
                IF f = "fileName" THEN inp.file.name ELSE base[f]]
       ELSE base

\* registries an earlier run can have left: the record of input i carries
\* UploadId i and timeStarted <= lastTouched
InitRecords(i) ==
    { FileMetadata(InputSeq[i], i, tt[1], tt[2]) :
        tt \in {x \in InitTimes \X InitTimes : x[1] <= x[2]} }

inputIndex(k) == CHOOSE i \in 1 .. Len(InputSeq) : fileKeyOf(InputSeq[i]) = k

InitUploads ==
    UNION { { [k \in {fileKeyOf(InputSeq[i]) : i \in S} |-> rec[inputIndex(k)]] :
              rec \in {x \in [S -> UNION {InitRecords(i) : i \in S}] :
                          \A i \in S : x[i] \in InitRecords(i)} } :
            S \in {T \in SUBSET (1 .. Len(InputSeq)) :
                        Cardinality(T) <= MaxInitRecords} }

Init ==
    /\ storage \in {NullItem, MalformedItem}
                   \cup {JSONstringify(u) : u \in InitUploads}
    /\ uploadTasks = <<>>
    /\ now = Now0
    /\ ticks = 0
    /\ pc = [r \in Reqs |-> "idle"]
    /\ input = [r \in Reqs |-> None]
    /\ lookup = [r \in Reqs |-> None]
    /\ cachedUpload = [r \in Reqs |-> None]
    /\ subscribed = [r \in Reqs |-> FALSE]
    /\ result = [r \in Reqs |-> None]
    /\ err = [r \in Reqs |-> "none"]
    /\ gcUploads = [r \in Reqs |-> None]
    /\ nextUploadId = Len(InputSeq) + 1
    /\ aborts = {}
    /\ acked = {}
    /\ rejected = {}
    /\ calls = [r \in Reqs |-> [create |-> 0, list |-> <<>>, failed |-> {}]]
    /\ atCall = [r \in Reqs |-> None]
    /\ emitted = {}
    /\ registered = <<>>
    /\ got = None
    /\ fileKeyCall = None
    /\ prev = snapshot

(* ----------------------------- event loop ------------------------------ *)

\* a request whose _getCachedUploadParts returned without a remote call
\* resumes in a microtask; the response of a remote call is delivered in a
\* later task, after the microtasks have run
microtaskPending ==
    \E r \in Reqs : pc[r] = "lookup" /\ lookup[r].ret \in {"null", "undefined"}

(* ------------------------------- clock --------------------------------- *)

\* Date.now() is read by the purge pass (line 136), by the lookup (lines 83,
\* 85) and by _initMultiupload (lines 234, 235): the time that passed since
\* the last reading is chosen at each of them. Between two tasks of the event
\* loop any time can pass; between the purge pass and the lookup, which run in
\* one synchronous stretch of addTask, the clock can move on by a millisecond
ClockSteps == {oneHourInMs + 1}

SyncSteps == {1}

Elapsed == {0} \cup (IF ticks < MaxTicks THEN ClockSteps ELSE {})

ElapsedSync == {0} \cup (IF ticks < MaxTicks THEN SyncSteps ELSE {})

tick(d) ==
    /\ now' = now + d
    /\ ticks' = IF d = 0 THEN ticks ELSE ticks + 1

(* ------------------------------ addTask -------------------------------- *)

\* new AWSS3UploadTask({...}); the emitter is the one of request r
AWSS3UploadTask(inp, uploadId, r) ==
    [uploadId |-> uploadId, bucket |-> inp.bucket, key |-> inp.key,
     file |-> inp.file, emitter |-> r]

AWSS3UploadTaskResumed(inp, uploadId, completedParts, r) ==
    [uploadId |-> uploadId, bucket |-> inp.bucket, key |-> inp.key,
     file |-> inp.file, completedParts |-> completedParts, emitter |-> r]

completedPartsOf(task) ==
    IF "completedParts" \in DOMAIN task THEN task.completedParts ELSE <<>>

\* the responses a successful ListPartsCommand can carry
PartsChoices == { [i \in 1 .. n |-> [PartNumber |-> i]] : n \in 0 .. MaxParts }

\* addTask up to its first suspension: the purge pass (lines 173-175), which
\* reads the clock d after the last reading, then _getCachedUploadParts up to
\* its return or to the ListPartsCommand it awaits (lines 177-183), which
\* reads the clock dSync later. JSON.parse in the purge pass is outside the
\* try.
AddTask(r, inp, d, dSync) ==
    /\ pc[r] = "idle"
    /\ now' = now + d + dSync
    /\ ticks' = ticks + (IF d = 0 THEN 0 ELSE 1) + (IF dSync = 0 THEN 0 ELSE 1)
    /\ ticks' <= MaxTicks
    /\ \A q \in Reqs : q < r => pc[q] # "idle"
    /\ Cardinality({q \in Reqs : pc[q] \in {"lookup", "create"}}) < MaxInFlight
    /\ input' = [input EXCEPT ![r] = inp]
    /\ atCall' = [atCall EXCEPT ![r] =
                      [item |-> storage, gcNow |-> now + d, now |-> now']]
    /\ IF JSONparseThrows(storage)
       THEN /\ pc' = [pc EXCEPT ![r] = "failed"]
            /\ err' = [err EXCEPT ![r] = "SyntaxError"]
            /\ UNCHANGED <<storage, gcUploads, aborts, lookup, calls>>
       ELSE LET uploads == parseUploads(storage)
                cmds == purgeAbortCommands(r, uploads, now + d, oneHourInMs)
                c == _getCachedUploadParts(purgeWriteBack(uploads),
                                           fileKeyOf(inp), now')
            IN /\ storage' = c.item
               /\ gcUploads' = [gcUploads EXCEPT ![r] = uploads]
               /\ aborts' = aborts \cup cmds
               /\ lookup' = [lookup EXCEPT ![r] = [f \in DOMAIN c \ {"item"} |-> c[f]]]
               /\ calls' = IF c.ret = "listParts"
                           THEN [calls EXCEPT ![r].list = Append(@, c.UploadId)]
                           ELSE calls
               /\ pc' = [pc EXCEPT ![r] = "lookup"]
               /\ err' = err
    /\ UNCHANGED <<uploadTasks, cachedUpload, subscribed, result,
                   nextUploadId, acked, rejected, emitted>>
    /\ got' = None
    /\ UNCHANGED <<registered, fileKeyCall>>
    /\ remember

\* subscribeAndInit with the two emitter.on calls left for later
initThenSubscribe(r, rejectedCalls) ==
    /\ subscribed' = subscribed
    /\ calls' = [calls EXCEPT ![r].create = @ + 1,
                              ![r].failed = @ \cup rejectedCalls]
    /\ pc' = [pc EXCEPT ![r] = "create"]

\* lines 190-196 and 211, 214-222: subscribe the two handlers, then (no
\* ListPartsOutput in cachedUpload) send the CreateMultipartUploadCommand
subscribeAndInit(r, rejectedCalls) ==
    /\ subscribed' = [subscribed EXCEPT ![r] = TRUE]
    /\ calls' = [calls EXCEPT ![r].create = @ + 1,
                              ![r].failed = @ \cup rejectedCalls]
    /\ pc' = [pc EXCEPT ![r] = "create"]

\* _getCachedUploadParts returned null or undefined: cachedUpload = {}
LookupResolve(r) ==
    /\ pc[r] = "lookup"
    /\ lookup[r].ret \in {"null", "undefined"}
    /\ cachedUpload' = [cachedUpload EXCEPT ![r] = <<>>]
    /\ subscribeAndInit(r, {})
    /\ UNCHANGED <<storage, uploadTasks, now, ticks, input, lookup, result, err,
                   gcUploads, nextUploadId, aborts, acked, rejected, atCall,
                   emitted>>
    /\ got' = None
    /\ UNCHANGED <<registered, fileKeyCall>>
    /\ remember

\* the ListPartsCommand rejected, without the try of lines 176-189
ListPartsRejectUncaught(r) ==
    /\ pc[r] = "lookup"
    /\ ~microtaskPending
    /\ lookup[r].ret = "listParts"
    /\ pc' = [pc EXCEPT ![r] = "failed"]
    /\ err' = [err EXCEPT ![r] = "ListParts"]
    /\ calls' = [calls EXCEPT ![r].failed = @ \cup {"list"}]
    /\ UNCHANGED <<storage, uploadTasks, now, ticks, input, lookup, result,
                   cachedUpload, subscribed, gcUploads, nextUploadId, aborts,
                   acked, rejected, atCall, emitted>>
    /\ got' = None
    /\ UNCHANGED <<registered, fileKeyCall>>
    /\ remember

\* the ListPartsCommand rejected: caught at lines 184-189, cachedUpload = {}
ListPartsReject(r) ==
    /\ pc[r] = "lookup"
    /\ ~microtaskPending
    /\ lookup[r].ret = "listParts"
    /\ cachedUpload' = [cachedUpload EXCEPT ![r] = <<>>]
    /\ subscribeAndInit(r, {"list"})
    /\ UNCHANGED <<storage, uploadTasks, now, ticks, input, lookup, result, err,
                   gcUploads, nextUploadId, aborts, acked, rejected, atCall,
                   emitted>>
    /\ got' = None
    /\ UNCHANGED <<registered, fileKeyCall>>
    /\ remember

\* the task addTask builds on the resume path (lines 197-210)
resumedTask(inp, output, r) ==
    AWSS3UploadTaskResumed(inp, output.UploadId, output.Parts, r)

\* the ListPartsCommand resolved with the session's id and its parts
ListPartsResolve(r, parts) ==
    /\ pc[r] = "lookup"
    /\ ~microtaskPending
    /\ lookup[r].ret = "listParts"
    /\ LET output == [UploadId |-> lookup[r].UploadId, Parts |-> parts] IN
       /\ cachedUpload' = [cachedUpload EXCEPT ![r] = output]
       /\ subscribed' = [subscribed EXCEPT ![r] = TRUE]
       /\ IF _isListPartsOutput(output)
          THEN /\ uploadTasks' = setKey(uploadTasks, output.UploadId,
                                        resumedTask(input[r], output, r))
               /\ registered' = Append(registered,
                                        [uploadId |-> output.UploadId,
                                         task |-> resumedTask(input[r], output, r)])
               /\ result' = [result EXCEPT ![r] = resumedTask(input[r], output, r)]
               /\ pc' = [pc EXCEPT ![r] = "done"]
               /\ calls' = calls
          ELSE /\ calls' = [calls EXCEPT ![r].create = @ + 1]
               /\ pc' = [pc EXCEPT ![r] = "create"]
               /\ UNCHANGED <<uploadTasks, result, registered>>
    /\ UNCHANGED <<storage, now, ticks, input, lookup, err, gcUploads,
                   nextUploadId, aborts, acked, rejected, atCall, emitted>>
    /\ got' = None
    /\ UNCHANGED fileKeyCall
    /\ remember

(* --------------------------- _initMultiupload -------------------------- *)

\* lines 232-240
newFileMetadata(inp, uploadId, t) == FileMetadata(inp, uploadId, t, t)

\* the CreateMultipartUploadCommand resolved (lines 223-242)
_initMultiuploadResolve(r, d) ==
    /\ pc[r] = "create"
    /\ ~microtaskPending
    /\ tick(d)
    /\ LET uploadId == nextUploadId
           newTask == AWSS3UploadTask(input[r], uploadId, r)
       IN /\ nextUploadId' = nextUploadId + 1
          /\ uploadTasks' = setKey(uploadTasks, uploadId, newTask)
          /\ registered' = Append(registered,
                                   [uploadId |-> uploadId, task |-> newTask])
          /\ IF JSONparseThrows(storage)
             THEN /\ pc' = [pc EXCEPT ![r] = "failed"]
                  /\ err' = [err EXCEPT ![r] = "SyntaxError"]
                  /\ UNCHANGED <<storage, result>>
             ELSE /\ storage' = _addKey(storage, fileKeyOf(input[r]),
                                        newFileMetadata(input[r], uploadId, now'))
                  /\ result' = [result EXCEPT ![r] = newTask]
                  /\ pc' = [pc EXCEPT ![r] = "done"]
                  /\ err' = err
    /\ UNCHANGED <<input, lookup, cachedUpload, subscribed,
                   gcUploads, aborts, acked, rejected, calls, atCall, emitted>>
    /\ got' = None
    /\ UNCHANGED fileKeyCall
    /\ remember

\* the CreateMultipartUploadCommand rejected, the rejection swallowed: a task
\* without a session id is registered and returned
_initMultiuploadRejectSwallowed(r) ==
    /\ pc[r] = "create"
    /\ ~microtaskPending
    /\ pc' = [pc EXCEPT ![r] = "done"]
    /\ calls' = [calls EXCEPT ![r].failed = @ \cup {"create"}]
    /\ uploadTasks' = setKey(uploadTasks, 0, AWSS3UploadTask(input[r], 0, r))
    /\ result' = [result EXCEPT ![r] = AWSS3UploadTask(input[r], 0, r)]
    /\ UNCHANGED <<storage, now, ticks, input, lookup, cachedUpload, err,
                   subscribed, gcUploads, nextUploadId, aborts, acked,
                   rejected, atCall, emitted>>
    /\ got' = None
    /\ UNCHANGED <<registered, fileKeyCall>>
    /\ remember

\* the CreateMultipartUploadCommand rejected: the await at line 217 throws
_initMultiuploadReject(r) ==
    /\ pc[r] = "create"
    /\ ~microtaskPending
    /\ pc' = [pc EXCEPT ![r] = "failed"]
    /\ err' = [err EXCEPT ![r] = "CreateMultipartUpload"]
    /\ calls' = [calls EXCEPT ![r].failed = @ \cup {"create"}]
    /\ UNCHANGED <<storage, uploadTasks, now, ticks, input, lookup,
                   cachedUpload, subscribed, result, gcUploads, nextUploadId,
                   aborts, acked, rejected, atCall, emitted>>
    /\ got' = None
    /\ UNCHANGED <<registered, fileKeyCall>>
    /\ remember

(* ------------------------- emitter notifications ----------------------- *)

\* ev is emitted on the emitter of request r and a handler of lines 191-196
\* runs. An upload completes or is aborted once; an event emitted before the
\* handlers are subscribed reaches no code of the manager and is left out.
Emit(r, ev) ==
    /\ subscribed[r]
    /\ r \notin emitted
    /\ Cardinality(emitted) < MaxEmits
    /\ emitted' = emitted \cup {r}
    /\ storage' = IF JSONparseThrows(storage)
                  THEN storage
                  ELSE _removeKey(storage, fileKeyOf(input[r]))
    /\ UNCHANGED <<uploadTasks, now, ticks, pc, input, lookup, cachedUpload,
                   subscribed, result, err, gcUploads, nextUploadId, aborts,
                   acked, rejected, calls, atCall>>
    /\ got' = None
    /\ UNCHANGED <<registered, fileKeyCall>>
    /\ remember

(* ---------------- the abort calls of _purgeExpiredKeys ----------------- *)

\* lines 146-148: the then-callback deletes from the pass's local object,
\* which line 151 has already serialized
AbortResolve(a) ==
    /\ a \in pendingAborts
    /\ ~microtaskPending
    /\ Cardinality(acked \cup rejected) < MaxAbortReplies
    /\ acked' = acked \cup {a}
    /\ gcUploads' = [gcUploads EXCEPT ![a.pass] = deleteKey(@, a.k)]
    /\ UNCHANGED <<storage, uploadTasks, now, ticks, pc, input, lookup,
                   cachedUpload, subscribed, result, err, nextUploadId, aborts,
                   rejected, calls, atCall, emitted>>
    /\ got' = None
    /\ UNCHANGED <<registered, fileKeyCall>>
    /\ remember

\* AbortReject taking the record out of the registry
AbortRejectEvicts(a) ==
    /\ a \in pendingAborts
    /\ ~microtaskPending
    /\ Cardinality(acked \cup rejected) < MaxAbortReplies
    /\ rejected' = rejected \cup {a}
    /\ storage' = _removeKey(storage, a.k)
    /\ UNCHANGED <<uploadTasks, now, ticks, pc, input, lookup,
                   cachedUpload, subscribed, result, err, gcUploads,
                   nextUploadId, aborts, acked, calls, atCall, emitted>>
    /\ got' = None
    /\ UNCHANGED <<registered, fileKeyCall>>
    /\ remember

\* no catch on the promise: the rejection is unhandled
AbortReject(a) ==
    /\ a \in pendingAborts
    /\ ~microtaskPending
    /\ Cardinality(acked \cup rejected) < MaxAbortReplies
    /\ rejected' = rejected \cup {a}
    /\ UNCHANGED <<storage, uploadTasks, now, ticks, pc, input, lookup,
                   cachedUpload, subscribed, result, err, gcUploads,
                   nextUploadId, aborts, acked, calls, atCall, emitted>>
    /\ got' = None
    /\ UNCHANGED <<registered, fileKeyCall>>
    /\ remember

(* ------------------------------- getTask ------------------------------- *)

\* what reading a property the object does not have gives
undefined == [undefined |-> TRUE]

\* the session ids the remote store can have handed out
UploadIds == 1 .. Len(InputSeq) + MaxReqs

\* getTask answering with some registered task when the id has none
getTaskOrAny(uploadId) ==
    IF uploadId \in DOMAIN uploadTasks THEN uploadTasks[uploadId]
    ELSE IF DOMAIN uploadTasks # {}
    THEN uploadTasks[CHOOSE id \in DOMAIN uploadTasks : TRUE]
    ELSE undefined

getTask(uploadId) ==
    IF uploadId \in DOMAIN uploadTasks THEN uploadTasks[uploadId] ELSE undefined

\* a caller asks for the task of a session id (lines 252-254)
GetTask(uploadId) ==
    /\ got' = [uploadId |-> uploadId, task |-> getTask(uploadId)]
    /\ UNCHANGED <<storage, uploadTasks, now, ticks, pc, input, lookup,
                   cachedUpload, subscribed, result, err, gcUploads,
                   nextUploadId, aborts, acked, rejected, calls, atCall,
                   emitted, registered, fileKeyCall>>
    /\ remember

Next ==
    \/ \E r \in Reqs, inp \in AddTaskInput, d \in Elapsed, dSync \in ElapsedSync :
          AddTask(r, inp, d, dSync)
    \/ \E r \in Reqs : LookupResolve(r)
    \/ \E r \in Reqs : ListPartsReject(r)
    \/ \E r \in Reqs, parts \in PartsChoices : ListPartsResolve(r, parts)
    \/ \E r \in Reqs, d \in Elapsed : _initMultiuploadResolve(r, d)
    \/ \E r \in Reqs : _initMultiuploadReject(r)
    \/ \E r \in Reqs, ev \in TaskEvents : Emit(r, ev)
    \/ \E a \in aborts : AbortResolve(a)
    \/ \E a \in aborts : AbortReject(a)
    \/ \E uploadId \in UploadIds : GetTask(uploadId)

Spec == Init /\ [][Next]_vars

(* ------------------- _getFileKey on its own --------------------------- *)

\* the fields of the File and Blob objects and of the destinations the
\* fingerprint is computed for; some of the strings contain the '-' that
\* join puts between the fields
FileNames == {"a.png", "a-b.png"}
LastModifieds == {100}
Sizes == {10, 11}
Types == {"image/png"}
Buckets == {"b", "b-c"}
Keys == {"k", "c-k"}

Files ==
    { [isFile |-> TRUE, isBlob |-> TRUE, name |-> n, lastModified |-> m,
       size |-> z, type |-> t] :
        n \in FileNames, m \in LastModifieds, z \in Sizes, t \in Types }

Blobs ==
    { [isFile |-> FALSE, isBlob |-> TRUE, size |-> z, type |-> t] :
        z \in Sizes, t \in Types }

FileKeyArgs ==
    { [blob |-> f, bucket |-> b, key |-> k] :
        f \in Files \cup Blobs, b \in Buckets, k \in Keys }

fileKeyOfArgs(a) == _getFileKey(a.blob, a.bucket, a.key)

\* two calls are about to be made
InitFileKey ==
    /\ storage = NullItem
    /\ uploadTasks = <<>>
    /\ now = Now0
    /\ ticks = 0
    /\ pc = [r \in Reqs |-> "idle"]
    /\ input = [r \in Reqs |-> None]
    /\ lookup = [r \in Reqs |-> None]
    /\ cachedUpload = [r \in Reqs |-> None]
    /\ subscribed = [r \in Reqs |-> FALSE]
    /\ result = [r \in Reqs |-> None]
    /\ err = [r \in Reqs |-> "none"]
    /\ gcUploads = [r \in Reqs |-> None]
    /\ nextUploadId = Len(InputSeq) + 1
    /\ aborts = {}
    /\ acked = {}
    /\ rejected = {}
    /\ calls = [r \in Reqs |-> [create |-> 0, list |-> <<>>, failed |-> {}]]
    /\ atCall = [r \in Reqs |-> None]
    /\ emitted = {}
    /\ registered = <<>>
    /\ got = None
    /\ fileKeyCall \in {[args |-> <<a1, a2>>, keys |-> None] :
                            a1 \in FileKeyArgs, a2 \in FileKeyArgs}
    /\ prev = snapshot

\* the two calls return (lines 104-118)
GetFileKeys ==
    /\ fileKeyCall.keys = None
    /\ fileKeyCall' = [fileKeyCall EXCEPT
                          !.keys = <<fileKeyOfArgs(fileKeyCall.args[1]),
                                     fileKeyOfArgs(fileKeyCall.args[2])>>]
    /\ UNCHANGED <<storage, uploadTasks, now, ticks, pc, input, lookup,
                   cachedUpload, subscribed, result, err, gcUploads,
                   nextUploadId, aborts, acked, rejected, calls, atCall,
                   emitted, registered, got, prev>>

NextFileKey == GetFileKeys

SpecFileKey == InitFileKey /\ [][NextFileKey]_vars

(* ===================== properties of the manager ====================== *)

\* Each property below is an invariant: where it speaks of a step, it
\* compares the state with prev, the state before the last step.

uploadsOf(item) == parseUploads(item)

issued(r) == atCall[r] # None

fk(r) == fileKeyOf(input[r])

\* the record the registry held under the request's fingerprint when the
\* request was issued
hadRecord(r) ==
    /\ issued(r)
    /\ atCall[r].item.kind = "json"
    /\ fk(r) \in DOMAIN uploadsOf(atCall[r].item)

recordAtCall(r) == uploadsOf(atCall[r].item)[fk(r)]

emptyAtCall(r) ==
    /\ issued(r)
    /\ atCall[r].item.kind # "malformed"
    /\ DOMAIN uploadsOf(atCall[r].item) = {}

freshAtCall(r) ==
    /\ hadRecord(r)
    /\ atCall[r].now - recordAtCall(r).lastTouched <= oneHourInMs

staleAtCall(r) ==
    /\ hadRecord(r)
    /\ atCall[r].now - recordAtCall(r).lastTouched > oneHourInMs

\* the last step was request r being issued: its purge pass and lookup
justIssued(r) == prev.pc[r] = "idle" /\ pc[r] # "idle"

\* the last step was request r returning from _initMultiupload
returnsFresh(r) == prev.pc[r] = "create" /\ pc[r] = "done"

\* the last step was request r returning on the resume path
returnsResumed(r) == prev.pc[r] = "lookup" /\ pc[r] = "done"

\* what a request returning from _initMultiupload leaves behind: a task
\* without parts for a session id never seen before, registered under it,
\* and the fingerprint's record carrying that id
freshPost(r) ==
    /\ completedPartsOf(result[r]) = <<>>
    /\ result[r].uploadId \notin DOMAIN prev.uploadTasks
    /\ \A k \in DOMAIN uploadsOf(prev.storage) :
           uploadsOf(prev.storage)[k].uploadId # result[r].uploadId
    /\ result[r].uploadId \in DOMAIN uploadTasks
    /\ uploadTasks[result[r].uploadId] = result[r]
    /\ fk(r) \in DOMAIN uploadsOf(storage)
    /\ uploadsOf(storage)[fk(r)].uploadId = result[r].uploadId

\* C1 as stated: a request issued on a registry without records makes one
\* create call and no list-parts call, returns a task without parts that is
\* registered under the new session id, and when it returns the registry
\* holds exactly one record, the one under the file's fingerprint
C1_AsStated ==
    \A r \in Reqs :
        emptyAtCall(r) =>
            /\ calls[r].list = <<>>
            /\ calls[r].create <= 1
            /\ returnsFresh(r) =>
                  /\ calls[r].create = 1
                  /\ freshPost(r)
                  /\ DOMAIN uploadsOf(storage) = {fk(r)}

\* C1 amended: as C1, except that the request's write adds the one record
\* under the file's fingerprint and leaves every other record as it was; the
\* registry holds that record alone whenever no request for another
\* fingerprint has written in the meantime
C1_EmptyRegistry ==
    \A r \in Reqs :
        emptyAtCall(r) =>
            /\ calls[r].list = <<>>
            /\ calls[r].create <= 1
            /\ returnsFresh(r) =>
                  /\ calls[r].create = 1
                  /\ freshPost(r)
                  /\ DOMAIN uploadsOf(storage) =
                         DOMAIN uploadsOf(prev.storage) \cup {fk(r)}
                  /\ \A k \in DOMAIN uploadsOf(prev.storage) \ {fk(r)} :
                         uploadsOf(storage)[k] = uploadsOf(prev.storage)[k]
                  /\ DOMAIN uploadsOf(prev.storage) \subseteq {fk(r)} =>
                         DOMAIN uploadsOf(storage) = {fk(r)}

C1_Witness ==
    \E r \in Reqs :
        /\ emptyAtCall(r)
        /\ returnsFresh(r)
        /\ calls[r] = [create |-> 1, list |-> <<>>, failed |-> {}]
        /\ DOMAIN uploadsOf(storage) = {fk(r)}
        /\ uploadsOf(storage)[fk(r)].uploadId = result[r].uploadId
        /\ uploadTasks[result[r].uploadId] = result[r]

\* C2: a request that finds a record under its fingerprint with
\* now - lastTouched <= one hour sends list-parts with the record's session
\* id and no create call; when list-parts succeeds it returns a task bound to
\* that session id, seeded with the parts reported, registered under that id
C2_ResumeFresh ==
    \A r \in Reqs :
        freshAtCall(r) =>
            /\ calls[r].list = <<recordAtCall(r).uploadId>>
            /\ (cachedUpload[r] # None /\ _isListPartsOutput(cachedUpload[r])) =>
                  /\ pc[r] = "done"
                  /\ calls[r].create = 0
                  /\ result[r].uploadId = recordAtCall(r).uploadId
                  /\ completedPartsOf(result[r]) = cachedUpload[r].Parts
                  /\ returnsResumed(r) =>
                        /\ result[r].uploadId \in DOMAIN uploadTasks
                        /\ uploadTasks[result[r].uploadId] = result[r]

C2_Witness ==
    \E r \in Reqs :
        /\ freshAtCall(r)
        /\ atCall[r].now - recordAtCall(r).lastTouched = oneHourInMs
        /\ returnsResumed(r)
        /\ calls[r].create = 0
        /\ result[r].uploadId = recordAtCall(r).uploadId
        /\ Len(completedPartsOf(result[r])) = MaxParts
        /\ uploadTasks[result[r].uploadId] = result[r]

\* the records of uploads a purge pass at time t finds older than the TTL
expiredAt(uploads, t) ==
    {k \in DOMAIN uploads : t - uploads[k].timeStarted > oneHourInMs}

\* C3: a request that finds a record under its fingerprint with
\* now - lastTouched > one hour gets no cached session from the lookup, which
\* sends no list-parts call, no abort beyond those of the purge pass, and
\* leaves the registry as it was; the request then opens a new session as on
\* an empty registry
C3_StaleIsMiss ==
    \A r \in Reqs :
        staleAtCall(r) =>
            /\ calls[r].list = <<>>
            /\ lookup[r].ret = "undefined"
            /\ justIssued(r) =>
                  /\ uploadsOf(storage) = uploadsOf(prev.storage)
                  /\ {a.k : a \in aborts \ prev.aborts} =
                         expiredAt(uploadsOf(prev.storage), atCall[r].gcNow)
            /\ (pc[r] # "lookup") => calls[r].create = 1
            /\ (pc[r] = "failed") => err[r] = "CreateMultipartUpload"
            /\ (prev.pc[r] = "lookup" /\ pc[r] # "lookup") => pc[r] = "create"
            /\ returnsFresh(r) => freshPost(r)

C3_Witness ==
    \E r \in Reqs :
        /\ staleAtCall(r)
        /\ returnsFresh(r)
        /\ calls[r] = [create |-> 1, list |-> <<>>, failed |-> {}]
        /\ result[r].uploadId # recordAtCall(r).uploadId
        /\ fk(r) \in DOMAIN uploadsOf(storage)
        /\ uploadsOf(storage)[fk(r)].uploadId = result[r].uploadId

\* C4: when the completion or abort handler of a request has run, the
\* registry holds no record under the request's fingerprint, whether the
\* handler ran while the create call was pending or after the request
\* returned or failed
C4_NotifyEvicts ==
    \A r \in emitted \ prev.emitted :
        /\ storage.kind = "json"
        /\ fk(r) \notin DOMAIN uploadsOf(storage)

C4_Witness ==
    \E r \in emitted \ prev.emitted :
        /\ pc[r] = "create"
        /\ fk(r) \in DOMAIN uploadsOf(prev.storage)
        /\ fk(r) \notin DOMAIN uploadsOf(storage)

\* C5 as stated: every purge pass sends an abort for each record older than
\* the TTL by timeStarted, with the record's bucket, key and session id, and
\* a record whose abort was acknowledged is no longer in the registry
C5_AsStated ==
    /\ \A r \in Reqs :
          (issued(r) /\ atCall[r].item.kind = "json") =>
              \A k \in expiredAt(uploadsOf(atCall[r].item), atCall[r].gcNow) :
                  [pass |-> r, k |-> k,
                   Bucket |-> uploadsOf(atCall[r].item)[k].bucket,
                   Key |-> uploadsOf(atCall[r].item)[k].key,
                   UploadId |-> uploadsOf(atCall[r].item)[k].uploadId] \in aborts
    /\ \A a \in acked :
          ~(/\ a.k \in DOMAIN uploadsOf(storage)
            /\ uploadsOf(storage)[a.k].uploadId = a.UploadId)

\* a record of the registry before the last step is still there, with its
\* session id and its timeStarted
kept(k) ==
    /\ k \in DOMAIN uploadsOf(storage)
    /\ uploadsOf(storage)[k].uploadId = uploadsOf(prev.storage)[k].uploadId
    /\ uploadsOf(storage)[k].timeStarted = uploadsOf(prev.storage)[k].timeStarted

\* C6: a purge pass sends no abort for a record whose age by timeStarted, at
\* the pass's reading of the clock, is at most the TTL, and neither the pass
\* nor its abort callbacks take such a record out of the registry; age = TTL
\* counts as young
C6_YoungKept ==
    /\ \A a \in aborts \ prev.aborts :
          /\ a.k \in DOMAIN uploadsOf(prev.storage)
          /\ uploadsOf(prev.storage)[a.k].uploadId = a.UploadId
          /\ atCall[a.pass].gcNow - uploadsOf(prev.storage)[a.k].timeStarted
                 > oneHourInMs
    /\ \A r \in Reqs :
          justIssued(r) =>
              \A k \in DOMAIN uploadsOf(prev.storage)
                          \ expiredAt(uploadsOf(prev.storage), atCall[r].gcNow) :
                  kept(k)
    /\ (acked # prev.acked) =>
          \A k \in DOMAIN uploadsOf(prev.storage)
                      \ expiredAt(uploadsOf(prev.storage), now) : kept(k)

C6_Witness ==
    \E r \in Reqs :
        /\ justIssued(r)
        /\ \E k \in DOMAIN uploadsOf(prev.storage) :
              /\ atCall[r].gcNow - uploadsOf(prev.storage)[k].timeStarted
                     = oneHourInMs
              /\ k \in DOMAIN uploadsOf(storage)
              /\ uploadsOf(storage)[k].uploadId = uploadsOf(prev.storage)[k].uploadId
              /\ \A a \in aborts : a.UploadId # uploadsOf(storage)[k].uploadId

\* C7: a request whose list-parts call failed does not fail for it: it goes
\* on to one create call, and when that succeeds it returns a task without
\* parts for a new session id, which replaces the old one in the record
C7_ListFailureFallsBack ==
    \A r \in Reqs :
        ("list" \in calls[r].failed) =>
            /\ pc[r] \in {"create", "done", "failed"}
            /\ calls[r].create = 1
            /\ (pc[r] = "failed") =>
                  (err[r] = "CreateMultipartUpload" /\ "create" \in calls[r].failed)
            /\ ("list" \notin prev.calls[r].failed) =>
                  (pc[r] = "create" /\ err[r] = "none")
            /\ returnsFresh(r) =>
                  (freshPost(r) /\ result[r].uploadId # calls[r].list[1])

C7_Witness ==
    \E r \in Reqs :
        /\ "list" \in calls[r].failed
        /\ returnsFresh(r)
        /\ completedPartsOf(result[r]) = <<>>
        /\ result[r].uploadId # recordAtCall(r).uploadId
        /\ uploadsOf(prev.storage)[fk(r)].uploadId = recordAtCall(r).uploadId
        /\ uploadsOf(storage)[fk(r)].uploadId = result[r].uploadId

\* C8 as stated: a request issued while the stored item is not parseable
\* does not fail for it (it can fail only when its create call fails)
C8_AsStated ==
    \A r \in Reqs :
        (issued(r) /\ atCall[r].item.kind = "malformed") =>
            /\ err[r] # "SyntaxError"
            /\ (pc[r] = "failed") => "create" \in calls[r].failed

\* C9: a request whose create call failed fails with that error, returns no
\* task, has no task in the task table, and the failure changes neither the
\* registry nor the task table
C9_CreateFailureSurfaces ==
    \A r \in Reqs :
        ("create" \in calls[r].failed) =>
            /\ pc[r] = "failed"
            /\ err[r] = "CreateMultipartUpload"
            /\ result[r] = None
            /\ \A id \in DOMAIN uploadTasks : uploadTasks[id].emitter # r
            /\ ("create" \notin prev.calls[r].failed) =>
                  (storage = prev.storage /\ uploadTasks = prev.uploadTasks)

C9_Witness ==
    \E r \in Reqs :
        /\ "create" \in calls[r].failed
        /\ "create" \notin prev.calls[r].failed
        /\ pc[r] = "failed"
        /\ storage.kind = "json"
        /\ fk(r) \notin DOMAIN uploadsOf(storage)
        /\ uploadTasks = <<>>

\* both requests got no cached session from the lookup
bothMissed(r1, r2) ==
    /\ issued(r1) /\ issued(r2)
    /\ fk(r1) = fk(r2)
    /\ lookup[r1] # None /\ lookup[r1].ret \in {"null", "undefined"}
    /\ lookup[r2] # None /\ lookup[r2].ret \in {"null", "undefined"}

\* r2 was issued before r1 wrote its record
overlapped(r1, r2) ==
    \A k \in DOMAIN uploadsOf(atCall[r2].item) :
        uploadsOf(atCall[r2].item)[k].uploadId # result[r1].uploadId

\* C10: of two requests for one fingerprint that both missed in the lookup
\* while the other was running, each makes one create call and has its task
\* registered under its own session id, and when the second of them writes,
\* the fingerprint's one record carries the second writer's session id
C10_LastWriterWins ==
    \A r1, r2 \in Reqs :
        (/\ r1 # r2
         /\ bothMissed(r1, r2)
         /\ prev.pc[r1] = "done"
         /\ overlapped(r1, r2)
         /\ returnsFresh(r2)) =>
            /\ calls[r1].create = 1
            /\ calls[r2].create = 1
            /\ freshPost(r2)
            /\ result[r2].uploadId # result[r1].uploadId
            /\ result[r1].uploadId \in DOMAIN uploadTasks
            /\ uploadsOf(storage)[fk(r2)].uploadId = result[r2].uploadId

C10_Witness ==
    \E r1, r2 \in Reqs :
        /\ r1 < r2
        /\ bothMissed(r1, r2)
        /\ prev.pc[r2] = "done"
        /\ returnsFresh(r1)
        /\ overlapped(r2, r1)
        /\ emitted = {}
        /\ uploadTasks[result[r1].uploadId] = result[r1]
        /\ uploadTasks[result[r2].uploadId] = result[r2]
        /\ uploadsOf(prev.storage)[fk(r1)].uploadId = result[r2].uploadId
        /\ uploadsOf(storage)[fk(r1)].uploadId = result[r1].uploadId

\* an abort for session id was sent by some purge pass
abortIssued(id) == \E a \in aborts : a.UploadId = id

\* some record of the registry carries session id
recorded(id) ==
    \E k \in DOMAIN uploadsOf(storage) : uploadsOf(storage)[k].uploadId = id

\* C11 as stated: when the lookup of a request found the record of session
\* S1 stale and the request has opened a new session for the fingerprint, an
\* abort for S1 has been sent by the purge pass of that request or can still
\* be sent by a later pass (a pass sends aborts only for the sessions of the
\* records it reads, so S1 must still be recorded)
C11_AsStated ==
    \A r \in Reqs :
        (staleAtCall(r) /\ pc[r] = "done") =>
            \/ abortIssued(recordAtCall(r).uploadId)
            \/ recorded(recordAtCall(r).uploadId)

\* the positions in registered of the assignments made under session id
registrationsOf(id) ==
    {i \in 1 .. Len(registered) : registered[i].uploadId = id}

lastRegistration(id) ==
    registered[CHOOSE i \in registrationsOf(id) :
                   \A j \in registrationsOf(id) : j <= i]

\* C12: getTask returns the task most recently registered under the session
\* id by a request of this manager, and undefined when no request has
\* registered one, whatever the registry holds; the call sends nothing to
\* the remote store and leaves the task table and the registry as they were
C12_GetTask ==
    (got # None) =>
        /\ (registrationsOf(got.uploadId) = {}) => got.task = undefined
        /\ (registrationsOf(got.uploadId) # {}) =>
               got.task = lastRegistration(got.uploadId).task
        /\ storage = prev.storage
        /\ uploadTasks = prev.uploadTasks
        /\ calls = prev.calls
        /\ aborts = prev.aborts

C12_Witness ==
    /\ got # None
    /\ Cardinality(registrationsOf(got.uploadId)) = 2
    /\ got.task = registered[2].task
    /\ got.task # registered[1].task
    /\ recorded(got.uploadId)

\* both calls were made for File objects, or both for anonymous Blobs
sameKind(a1, a2) == _isFile(a1.blob) = _isFile(a2.blob)

\* C13 as stated: two _getFileKey calls on named files, or on anonymous
\* blobs, return equal fingerprints when the fields they read are equal and
\* different fingerprints when any of those fields differs, also for field
\* values that contain '-'
C13_AsStated ==
    (fileKeyCall # None /\ fileKeyCall.keys # None) =>
        LET a1 == fileKeyCall.args[1]
            a2 == fileKeyCall.args[2]
        IN sameKind(a1, a2) =>
               ((a1 = a2) <=> (fileKeyCall.keys[1] = fileKeyCall.keys[2]))

\* the abort the purge pass of request r sends for the record under k
abortOf(r, uploads, k) ==
    [pass |-> r, k |-> k, Bucket |-> uploads[k].bucket,
     Key |-> uploads[k].key, UploadId |-> uploads[k].uploadId]

\* the record the abort a was sent for was in the registry, with a's session
\* id, before the last step
stillRecorded(a) ==
    /\ a.k \in DOMAIN uploadsOf(prev.storage)
    /\ uploadsOf(prev.storage)[a.k].uploadId = a.UploadId

\* a request fails for no other reason than its create call
failsOnlyForCreate(r) ==
    /\ err[r] \in {"none", "CreateMultipartUpload"}
    /\ (pc[r] = "failed") => "create" \in calls[r].failed

\* C14 as stated: when an abort sent by a purge pass has failed, the request
\* that ran the pass does not fail for it, the failure leaves the registry as
\* it was, and every pass that runs afterwards sends an abort for the same
\* session
C14_AsStated ==
    /\ \A a \in rejected : failsOnlyForCreate(a.pass)
    /\ (rejected # prev.rejected) => (storage = prev.storage /\ pc = prev.pc)
    /\ \A a \in prev.rejected : \A r \in Reqs :
          (justIssued(r) /\ pc[r] # "failed") =>
              \E a2 \in aborts : a2.pass = r /\ a2.UploadId = a.UploadId

\* C14 amended: as C14, except that a pass which runs afterwards sends the
\* abort again when it still finds the session's record in the registry
C14_AbortFailureRetried ==
    /\ \A a \in rejected : failsOnlyForCreate(a.pass)
    /\ (rejected # prev.rejected) => (storage = prev.storage /\ pc = prev.pc)
    /\ \A a \in prev.rejected : \A r \in Reqs :
          (justIssued(r) /\ stillRecorded(a)) =>
              abortOf(r, uploadsOf(prev.storage), a.k) \in aborts

C14_Witness ==
    \E a \in prev.rejected : \E r \in Reqs :
        /\ justIssued(r)
        /\ r # a.pass
        /\ pc[a.pass] = "done"
        /\ stillRecorded(a)
        /\ abortOf(r, uploadsOf(prev.storage), a.k) \in aborts
        /\ abortOf(r, uploadsOf(prev.storage), a.k).UploadId = a.UploadId

\* the tasks that exist: those in the task table and those returned
tasksOf(r) ==
    {uploadTasks[id] : id \in {x \in DOMAIN uploadTasks : uploadTasks[x].emitter = r}}
        \cup {registered[i].task :
                 i \in {x \in 1 .. Len(registered) : registered[x].task.emitter = r}}
        \cup (IF result[r] # None THEN {result[r]} ELSE {})

\* C15: on the resume path and on the fresh path, whenever a task of a
\* request exists (constructed, registered or returned), the two handlers
\* are subscribed on the request's emitter; a request that has not yet
\* subscribed has no task, and a notification is handled only for a request
\* that has subscribed
C15_SubscribedBeforeTask ==
    \A r \in Reqs :
        /\ (tasksOf(r) # {}) => subscribed[r]
        /\ (pc[r] = "done") => subscribed[r]
        /\ (r \in emitted) => subscribed[r]
        /\ (~subscribed[r]) => (result[r] = None /\ pc[r] \in {"idle", "lookup", "failed"})

C15_Witness ==
    \E r1, r2 \in Reqs :
        /\ returnsResumed(r1)
        /\ pc[r2] = "done"
        /\ completedPartsOf(result[r2]) = <<>>
        /\ calls[r2].create = 1
        /\ subscribed[r1] /\ subscribed[r2]
        /\ tasksOf(r1) # {} /\ tasksOf(r2) # {}

\* the last step issued request r and its lookup hit a record
justHit(r) == justIssued(r) /\ lookup[r] # None /\ lookup[r].ret = "listParts"

\* the last step was the failure of the list-parts call of request r
listJustFailed(r) ==
    "list" \in calls[r].failed /\ "list" \notin prev.calls[r].failed

\* C16: when the lookup of a request hits, the registry written before the
\* list-parts call goes out differs from the one before in the hit record's
\* lastTouched alone, which is the lookup's reading of the clock; the failure
\* of the list-parts call leaves the registry as it is
C16_TouchPersists ==
    \A r \in Reqs :
        /\ justHit(r) =>
              LET before == uploadsOf(prev.storage)
                  after == uploadsOf(storage)
              IN /\ DOMAIN after = DOMAIN before
                 /\ fk(r) \in DOMAIN before
                 /\ calls[r].list = <<before[fk(r)].uploadId>>
                 /\ DOMAIN after[fk(r)] = DOMAIN before[fk(r)]
                 /\ after[fk(r)].lastTouched = atCall[r].now
                 /\ \A f \in DOMAIN before[fk(r)] \ {"lastTouched"} :
                        after[fk(r)][f] = before[fk(r)][f]
                 /\ \A k \in DOMAIN before \ {fk(r)} : after[k] = before[k]
        /\ listJustFailed(r) =>
              /\ storage = prev.storage
              /\ prev.pc[r] = "lookup"

C16_Witness ==
    \E r \in Reqs :
        /\ listJustFailed(r)
        /\ fk(r) \in DOMAIN uploadsOf(storage)
        /\ uploadsOf(storage)[fk(r)].lastTouched = atCall[r].now
        /\ recordAtCall(r).lastTouched < atCall[r].now
        /\ uploadsOf(storage)[fk(r)].uploadId = recordAtCall(r).uploadId
        /\ uploadsOf(storage)[fk(r)].timeStarted = recordAtCall(r).timeStarted

\* C17 as stated: the lookup of a request never hits the record of a session
\* for which the purge pass of that request or of an earlier one has sent an
\* abort, so no list-parts call goes out for such a session and no task is
\* built on it (requests are numbered in the order they are issued)
C17_AsStated ==
    \A r \in Reqs :
        (lookup[r] # None /\ lookup[r].ret = "listParts") =>
            \A a \in aborts : (a.pass <= r) => a.UploadId # lookup[r].UploadId

\* request r opened a session and wrote its record
openedSession(r) == pc[r] = "done" /\ calls[r].create = 1

\* C18 as stated: for every session a request opened and recorded, a record
\* of the registry carries the session id, or a purge pass has sent an abort
\* for it, or a completion or abort notification was handled for its
\* fingerprint
C18_AsStated ==
    \A r \in Reqs :
        openedSession(r) =>
            \/ recorded(result[r].uploadId)
            \/ abortIssued(result[r].uploadId)
            \/ \E q \in emitted : fk(q) = fk(r)

\* the fingerprints whose record (or its absence) the last step changed
changedKeys ==
    LET before == uploadsOf(prev.storage)
        after == uploadsOf(storage)
    IN {k \in DOMAIN before \cup DOMAIN after :
           \/ k \notin DOMAIN before
           \/ k \notin DOMAIN after
           \/ before[k] # after[k]}

\* request r has returned and the fingerprint's record carries its session
holdsRecord(r) ==
    /\ fk(r) \in DOMAIN uploadsOf(storage)
    /\ uploadsOf(storage)[fk(r)].uploadId = result[r].uploadId

\* C19: every step of the manager changes the record of at most one
\* fingerprint and leaves the others as they are, and when two requests for
\* different fingerprints have both returned, however they interleaved, and
\* no notification was handled, the registry holds the record of each
C19_NoLostUpdates ==
    /\ Cardinality(changedKeys) <= 1
    /\ \A r1, r2 \in Reqs :
          (/\ pc[r1] = "done" /\ pc[r2] = "done"
           /\ fk(r1) # fk(r2)
           /\ emitted = {}) =>
              (holdsRecord(r1) /\ holdsRecord(r2))

C19_Witness ==
    \E r1, r2 \in Reqs :
        /\ prev.pc[r1] = "done"
        /\ returnsFresh(r2)
        /\ fk(r1) # fk(r2)
        /\ overlapped(r1, r2)
        /\ calls[r1].create = 1
        /\ emitted = {}
        /\ holdsRecord(r1) /\ holdsRecord(r2)
        /\ changedKeys = {fk(r2)}

\* every record of the registry was started no later than it was touched
startedBeforeTouched ==
    \A k \in DOMAIN uploadsOf(storage) :
        uploadsOf(storage)[k].timeStarted <= uploadsOf(storage)[k].lastTouched

\* the purge pass of request r found the record under r's fingerprint
\* expired and sent the abort for it
expiredForPass(r) ==
    /\ atCall[r].gcNow - recordAtCall(r).timeStarted > oneHourInMs
    /\ abortOf(r, uploadsOf(atCall[r].item), fk(r)) \in aborts

\* C20 as stated: every record has timeStarted <= lastTouched, and a record
\* the lookup of a request finds stale by lastTouched was found expired by
\* timeStarted by the purge pass of that request
C20_AsStated ==
    /\ startedBeforeTouched
    /\ \A r \in Reqs : staleAtCall(r) => expiredForPass(r)

====
